---- MODULE Spec2Model ----
(***************************************************************************)
(* The generic CRUD resource pipeline of app/common/common_resource.py     *)
(* (CommonListResource, CommonItemResource) with its two decorators from   *)
(* app/common/interface_control.py and the serializer and envelope builder *)
(* of app/common/common_func.py.                                           *)
(*                                                                         *)
(* One request is one action.  A request runs on a request context (a      *)
(* record, see NewCtx) that carries the resource class, the parsed         *)
(* arguments, the session's working copy of the table (sess), the          *)
(* committed table (db) and the trace of the pipeline steps executed.      *)
(* Every handler is the composition of its steps in source order.          *)
(*                                                                         *)
(* Hooks are resource-supplied code.  A hook is modelled by its outcome:   *)
(* it returns a value, returns a pre-built Response, or raises.  Hooks do  *)
(* not touch the session themselves.  An exception of a collaborator (the  *)
(* storage engine, the model constructor) is an input of the request: the  *)
(* step named by ch.stop raises.                                           *)
(***************************************************************************)
EXTENDS Integers, Sequences, FiniteSets, TLC

\* ------------------------------------------------------------------ bounds
\* number of primary keys the table can hand out
MaxId == 2

Ids == 1..MaxId

\* --------------------------------------------------------- program values
\* business codes; app/common/constants.py is not part of the sources, the
\* values are the ones the docstrings of http_resp document
SUCCESS_CODE == 1
FAILED_CODE == 0

\* Python None as the value of a string-typed attribute or argument
NULL == "NULL"
Names == {"a", "b"}

\* messages, by the place that emits them
MSG_OK == "request ok"
MSG_NOT_ALLOWED == "method is not allowed"
MSG_SERVICE_ERROR == "service error"
MSG_PARAMS_REQUIRED == "parameters required"
MSG_EXISTS == "already exists"
MSG_DUPLICATE == "duplicate record"
MSG_NOT_FOUND == "not found"
MSG_QUERY_FAILED == "query failed"
MSG_CREATE_FAILED == "create failed"
MSG_CREATE_OK == "create ok"
MSG_UPDATE_FAILED == "update failed"
MSG_UPDATE_OK == "update ok"
MSG_DELETE_FAILED == "delete failed"
MSG_DELETE_OK == "delete ok"

EmptyMap == [k \in {} |-> 0]

\* ---------------------------------------------------------------- records
\* a row that is not in the table
Absent == [gone |-> TRUE]

\* attributes of the model class: a model derived from BaseDBModel has the
\* soft-delete flag, a model that is not has none
ModelAttrs(model) ==
    IF model = "soft" THEN {"id", "name", "create_time", "is_delete"}
    ELSE {"id", "name", "create_time"}

\* hasattr(item, key) for a fetched row
HasAttr(rec, key) == key \in DOMAIN rec

\* getattr(item, "is_delete", 0)
IsDeleted(rec) == IF HasAttr(rec, "is_delete") THEN rec.is_delete # 0 ELSE FALSE

Present(store) == {i \in Ids : store[i] # Absent}

\* the row the model constructor builds from keyword arguments kw; the
\* column defaults (create_time, is_delete) are filled in at flush
NewRow(model, id, kw) ==
    LET nm == IF "name" \in DOMAIN kw THEN kw.name ELSE NULL
    IN IF model = "soft"
       THEN [id |-> id, name |-> nm, create_time |-> id, is_delete |-> 0]
       ELSE [id |-> id, name |-> nm, create_time |-> id]

\* ---------------------------------------------------------------- envelope
NoResp == [kind |-> "none", code |-> -1, message |-> "", data |-> EmptyMap, status |-> 0]

\* a Response object built by a hook
HookResponse(step) ==
    [kind |-> "hook", code |-> FAILED_CODE, message |-> step, data |-> EmptyMap, status |-> 200]

\* what the transport renders for a BadRequest that leaves the handler
BadRequestResponse ==
    [kind |-> "abort", code |-> -1, message |-> "BadRequest", data |-> EmptyMap, status |-> 400]

http_resp(code, message, data, status) ==
    [kind |-> "envelope", code |-> code, message |-> message, data |-> data, status |-> status]

\* --------------------------------------------------------- request context
NoChoice == [stop |-> "none", kind |-> "none", pick |-> 0, fetch |-> TRUE, pre |-> "same"]

\* the live rows of store whose name is the name the payload carries
SameName(store, payload) ==
    {i \in Present(store) :
        /\ ~IsDeleted(store[i])
        /\ "name" \in DOMAIN payload
        /\ store[i].name = payload.name}

NewCtx(h, rc, model, id, payload, ch, store, nxt) ==
    [h |-> h, rc |-> rc, model |-> model, id |-> id, payload |-> payload, ch |-> ch,
     args |-> EmptyMap, item |-> 0, found |-> 0, rows |-> <<>>, total |-> -1, data |-> <<>>,
     sess |-> store, snext |-> nxt, db |-> store, next |-> nxt,
     same0 |-> SameName(store, payload),
     trace |-> <<>>, exc |-> "none", caught |-> "none", resp |-> NoResp, dirty |-> FALSE]

Call(c, step) == [c EXCEPT !.trace = Append(@, step)]
Raise(c, step) == [c EXCEPT !.exc = step]
Return(c, r) == [c EXCEPT !.resp = r]
Running(c) == c.exc = "none" /\ c.resp = NoResp

\* the step raises in this request
Faulty(c, step) == c.ch.stop = step /\ c.ch.kind = "raise"
\* the hook returns a Response in this request
ShortCircuits(c, step) == c.ch.stop = step /\ c.ch.kind = "resp"

\* ----------------------------------------------------------------- session
rollback(c) ==
    [c EXCEPT !.sess = c.db, !.snext = c.next, !.trace = Append(@, "rollback")]

commit(c) ==
    IF Faulty(c, "commit") THEN Raise(Call(c, "commit"), "commit")
    ELSE [Call(c, "commit") EXCEPT !.db = c.sess, !.next = c.snext]

\* run the next step unless the handler has returned or raised
Then(c, Step(_)) == IF Running(c) THEN Step(c) ELSE c

\* a step that only calls a collaborator which may raise
Plain(c, step) == IF Faulty(c, step) THEN Raise(Call(c, step), step) ELSE Call(c, step)

\* a hook whose value the pipeline passes on unchanged; rollsBack tells
\* whether the handler calls db.session.rollback() before it returns the
\* hook's Response
Hook(c, step, rollsBack) ==
    IF step \notin c.rc.hooks THEN c
    ELSE IF Faulty(c, step) THEN Raise(Call(c, step), step)
    \* the hook calls abort(400)
    ELSE IF c.ch.stop = step /\ c.ch.kind = "bad_request"
         THEN Raise(Call(c, step), "BadRequest")
    ELSE IF ShortCircuits(c, step)
         THEN LET d == Call(c, step)
              IN Return(IF rollsBack THEN rollback(d) ELSE d, HookResponse(step))
    ELSE Call(c, step)

\* ------------------------------------------------------- argument parsing
\* the arguments the modelled resources declare
_GET_COMMON_PARAMS == {"start", "number", "page", "per_page"}
LIST_PARSER_CONFIG == {"name"} \cup _GET_COMMON_PARAMS
WRITE_PARSER_CONFIG == {"name", "extra"}
ITEM_PARSER_CONFIG == {}

\* reqparse.parse_args: every declared argument, None (the empty tuple) when
\* the request does not carry it
parse_args(configs, payload) ==
    [k \in configs |-> IF k \in DOMAIN payload THEN <<payload[k]>> ELSE <<>>]

get_parser_args(configs, payload) ==
    LET parsed == parse_args(configs, payload)
    IN [k \in {x \in DOMAIN parsed : parsed[x] # <<>>} |-> parsed[k][1]]

\* the first statement of every handler; it runs outside the try block
Parse(c, configs) ==
    IF c.ch.stop = "parse" /\ c.ch.kind = "bad_request"
    THEN Raise(Call(c, "parse"), "BadRequest")
    ELSE IF Faulty(c, "parse") THEN Raise(Call(c, "parse"), "parse")
    ELSE [Call(c, "parse") EXCEPT !.args = get_parser_args(configs, c.payload)]

\* ------------------------------------------------------------------ filters
\* a filter value is a scalar [dict |-> FALSE, v |-> x] or a comparison
\* mapping [dict |-> TRUE, v |-> [gt |-> 1, ...]]
Scalar(x) == [dict |-> FALSE, v |-> x]

\* mutant: every directive of the mapping is applied
_query_filter_other_logic_all(rec, field, logic_value) ==
    /\ "gt" \in DOMAIN logic_value => rec[field] > logic_value.gt
    /\ "lt" \in DOMAIN logic_value => rec[field] < logic_value.lt
    /\ "ge" \in DOMAIN logic_value => rec[field] >= logic_value.ge
    /\ "le" \in DOMAIN logic_value => rec[field] <= logic_value.le
    /\ "ne" \in DOMAIN logic_value => rec[field] # logic_value.ne

\* the predicate _query_filter_other_logic adds for field and logic_value
_query_filter_other_logic(rec, field, logic_value) ==
    IF "gt" \in DOMAIN logic_value THEN rec[field] > logic_value.gt
    ELSE IF "lt" \in DOMAIN logic_value THEN rec[field] < logic_value.lt
    ELSE IF "ge" \in DOMAIN logic_value THEN rec[field] >= logic_value.ge
    ELSE IF "le" \in DOMAIN logic_value THEN rec[field] <= logic_value.le
    ELSE IF "ne" \in DOMAIN logic_value THEN rec[field] # logic_value.ne
    ELSE TRUE

\* mutant: the caller's own is_delete entry is kept
WithSoftDelete_setdefault(model, filters) ==
    IF "is_delete" \in ModelAttrs(model) /\ "is_delete" \notin DOMAIN filters
    THEN [k \in DOMAIN filters \cup {"is_delete"} |->
            IF k = "is_delete" THEN Scalar(0) ELSE filters[k]]
    ELSE filters

\* the filter map after the soft-delete predicate has been forced into it
WithSoftDelete(model, filters) ==
    IF "is_delete" \in ModelAttrs(model)
    THEN [k \in DOMAIN filters \cup {"is_delete"} |->
            IF k = "is_delete" THEN Scalar(0) ELSE filters[k]]
    ELSE filters

\* the rows the query built by get_item(s)/get_count_by_filters selects
FilterQuery(model, store, filters) ==
    LET fs == WithSoftDelete(model, filters)
    IN {i \in Present(store) :
          \A f \in DOMAIN fs :
             IF fs[f].dict THEN _query_filter_other_logic(store[i], f, fs[f].v)
             ELSE store[i][f] = fs[f].v}

Min(S) == CHOOSE x \in S : \A y \in S : x <= y

\* Query.first() without ORDER BY: any selected row; pick is the row the
\* engine happens to return first
First(S, pick) == IF S = {} THEN 0 ELSE IF pick \in S THEN pick ELSE Min(S)

get_item_by_filters(model, store, filters, pick) ==
    First(FilterQuery(model, store, filters), pick)

get_items_by_filters(model, store, filters) == FilterQuery(model, store, filters)

get_count_by_filters(model, store, filters) ==
    Cardinality(FilterQuery(model, store, filters))

\* check_item_exist: sets c.found to the row it returns (0 for None)
check_item_exist(c, check_fields, fields_dict) ==
    IF check_fields # {}
    THEN IF "check_item_exist_func" \in c.rc.hooks
         THEN IF Faulty(c, "check_item_exist_func")
              THEN Raise(Call(c, "check_item_exist_func"), "check_item_exist_func")
              ELSE [Call(c, "check_item_exist_func") EXCEPT
                      !.found = IF c.ch.pick \in Present(c.sess) THEN c.ch.pick ELSE 0]
         ELSE [c EXCEPT !.found = 0]
    ELSE LET query_filters ==
                 [f \in {x \in check_fields : x \in DOMAIN fields_dict} |->
                    Scalar(fields_dict[f])]
         IN IF Faulty(c, "get_item_by_filters")
            THEN Raise(Call(c, "get_item_by_filters"), "get_item_by_filters")
            ELSE [Call(c, "get_item_by_filters") EXCEPT
                    !.found = get_item_by_filters(c.model, c.sess, query_filters, c.ch.pick)]

\* --------------------------------------------------------------- serializer
\* __process_query_item_data(item, *, date_format, ...) accepts one
\* positional argument; query_data_process passes it five
ItemPositionalParams == 1
ItemPositionalArgs == 5

\* the default serializer of the resource: data is a list (the rows of a
\* list query) or a single row; a serialized row is denoted by its id
query_data_process(c, isList) ==
    LET d == Call(c, "query_data_process")
        calls == IF isList THEN Len(c.rows) ELSE 1
    IN IF calls > 0 /\ ItemPositionalArgs > ItemPositionalParams
       THEN Raise(d, "query_data_process")
       ELSE [d EXCEPT !.data = IF isList THEN c.rows ELSE <<c.item>>]

\* a resource-supplied serializer hook
SerializeHook(c, step, isList, rollsBack) ==
    LET d == Hook(c, step, rollsBack)
    IN IF Running(d) THEN [d EXCEPT !.data = IF isList THEN c.rows ELSE <<c.item>>]
       ELSE d

\* ---------------------------------------------------------------- wrappers
\* the HTTP verb of a handler, which is also func.__name__.upper()
Verb(h) ==
    CASE h = "list_get" -> "GET"
      [] h = "post" -> "POST"
      [] h = "item_get" -> "GET"
      [] h = "put" -> "PUT"
      [] h = "delete" -> "DELETE"

\* mutant: the finally clause leaves the session alone
finally_rollback_none(c, ret) == [ret EXCEPT !.dirty = ret.sess # ret.db]

\* the finally clause of access_logger: every resource modelled here has a
\* model; dirty records whether the function left changes pending
finally_rollback(c, ret) ==
    LET d == [ret EXCEPT !.dirty = ret.sess # ret.db]
    IN IF Verb(c.h) # "GET" THEN rollback(d) ELSE d

\* mutant: the wrapper answers a BadRequest like any other exception
access_logger_catch_all(c, r) ==
    LET ret == IF r.exc = "none" THEN r
               ELSE Return(r, http_resp(FAILED_CODE, MSG_SERVICE_ERROR, EmptyMap, 500))
    IN finally_rollback(c, ret)

\* r: the context as the wrapped function left it
access_logger(c, r) ==
    LET ret == IF r.exc = "none" THEN r
               ELSE IF r.exc = "BadRequest" THEN Return(r, BadRequestResponse)
               ELSE Return(r, http_resp(FAILED_CODE, MSG_SERVICE_ERROR, EmptyMap, 500))
    IN finally_rollback(c, ret)

\* mutant: the gate looks at the resource having any ALLOW_METHOD entry
Allowed_any_entry(c) == c.rc.ALLOW_METHOD # {}

\* func.__name__.upper() in list(obj.ALLOW_METHOD.keys())
Allowed(c) == Verb(c.h) \in c.rc.ALLOW_METHOD

\* ret: the context as the wrapped function leaves it when it is called
method_control(c, ret) ==
    IF Allowed(c)
    THEN ret
    ELSE Return(c, http_resp(FAILED_CODE, MSG_NOT_ALLOWED, EmptyMap, 404))

\* the value a pre-hook returns for args: the same map, or the map with the
\* key name set to None
PreOut(pre, args) ==
    IF pre = "null_name"
    THEN [k \in DOMAIN args \cup {"name"} |-> IF k = "name" THEN NULL ELSE args[k]]
    ELSE args

PreHook(c, step, rollsBack) ==
    LET d == Hook(c, step, rollsBack)
    IN IF Running(d) /\ step \in c.rc.hooks
       THEN [d EXCEPT !.args = PreOut(c.ch.pre, c.args)]
       ELSE d

\* mutant: a business failure carries an HTTP error status
Fail_http_error(c, message) == Return(c, http_resp(FAILED_CODE, message, EmptyMap, 400))

Fail(c, message) == Return(c, http_resp(FAILED_CODE, message, EmptyMap, 200))

\* an except clause has caught the exception c.exc
Catch(c) == [c EXCEPT !.caught = c.exc, !.exc = "none"]

\* ------------------------------------------------- CommonListResource.post
post_check(c) ==
    LET d == check_item_exist(c, c.rc.post_check_exist_fields, c.args)
    IN IF Running(d) /\ d.found # 0 THEN Fail(d, MSG_EXISTS) ELSE d

post_pre(c) == PreHook(c, "post_preprocess_func", TRUE)

\* mutant: the session commits what it flushes
post_create_autocommit(c) ==
    LET kw == [k \in {x \in DOMAIN c.args : x \in ModelAttrs(c.model)} |-> c.args[k]]
        built == Plain(c, "construct")
        added == IF Running(built) THEN Call(built, "add") ELSE built
        flushed == IF Running(added) THEN Plain(added, "flush") ELSE added
    IN IF Running(flushed)
       THEN [flushed EXCEPT !.sess[c.snext] = NewRow(c.model, c.snext, kw),
                            !.db[c.snext] = NewRow(c.model, c.snext, kw),
                            !.item = c.snext,
                            !.snext = c.snext + 1,
                            !.next = c.snext + 1]
       ELSE flushed

post_create(c) ==
    LET kw == [k \in {x \in DOMAIN c.args : x \in ModelAttrs(c.model)} |-> c.args[k]]
        built == Plain(c, "construct")
        added == IF Running(built) THEN Call(built, "add") ELSE built
        flushed == IF Running(added) THEN Plain(added, "flush") ELSE added
    IN IF Running(flushed)
       THEN [flushed EXCEPT !.sess[c.snext] = NewRow(c.model, c.snext, kw),
                            !.item = c.snext,
                            !.snext = c.snext + 1]
       ELSE flushed

post_post(c) == Hook(c, "post_postprocess_func", TRUE)

post_serialize(c) ==
    IF "post_query_data_process_func" \in c.rc.hooks
    THEN SerializeHook(c, "post_query_data_process_func", FALSE, TRUE)
    ELSE query_data_process(c, FALSE)

post_final(c) == Hook(c, "post_process_return_data", TRUE)

\* mutant: the transaction is committed once the record is flushed
post_try_commit_early(c) ==
    LET s1 == post_check(c)
        s2 == Then(s1, post_pre)
        s3 == Then(s2, post_create)
        s4 == Then(s3, commit)
        s5 == Then(s4, post_post)
        s6 == Then(s5, post_serialize)
    IN Then(s6, post_final)

post_try(c) ==
    LET s1 == post_check(c)
        s2 == Then(s1, post_pre)
        s3 == Then(s2, post_create)
        s4 == Then(s3, post_post)
        s5 == Then(s4, post_serialize)
        s6 == Then(s5, post_final)
    IN Then(s6, commit)

\* mutant: an empty argument map goes into the pipeline
post_body_skip_empty(c) ==
    LET p == Parse(c, WRITE_PARSER_CONFIG)
    IN IF ~Running(p) THEN p
       ELSE LET t == post_try(p)
            IN IF t.exc # "none"
               THEN Fail(rollback(Catch(t)), MSG_CREATE_FAILED)
               ELSE IF t.resp # NoResp THEN t
               ELSE Return(t, http_resp(SUCCESS_CODE, MSG_CREATE_OK, [item |-> t.data[1]], 200))

post_body(c) ==
    LET p == Parse(c, WRITE_PARSER_CONFIG)
    IN IF ~Running(p) THEN p
       ELSE IF DOMAIN p.args = {} THEN Fail(p, MSG_PARAMS_REQUIRED)
       ELSE LET t == post_try(p)
            IN IF t.exc # "none"
               THEN Fail(rollback(Catch(t)), MSG_CREATE_FAILED)
               ELSE IF t.resp # NoResp THEN t
               ELSE Return(t, http_resp(SUCCESS_CODE, MSG_CREATE_OK, [item |-> t.data[1]], 200))

post_logged(c) == access_logger(c, post_body(c))
post(c) == method_control(c, post_logged(c))

\* --------------------------------------------- CommonItemResource.get_item
\* mutant: the fetched row is not tested for is_delete
get_item_keep_deleted(c) ==
    IF "get_item_func" \in c.rc.hooks
    THEN IF Faulty(c, "get_item_func")
         THEN Raise(Call(c, "get_item_func"), "get_item_func")
         ELSE [Call(c, "get_item_func") EXCEPT
                 !.item = IF c.ch.fetch /\ c.id \in Present(c.sess) THEN c.id ELSE 0]
    ELSE IF Faulty(c, "query_get")
         THEN Raise(Call(c, "query_get"), "query_get")
         ELSE [Call(c, "query_get") EXCEPT
                 !.item = IF c.id \in Present(c.sess) THEN c.id ELSE 0]

get_item(c) ==
    LET d == IF "get_item_func" \in c.rc.hooks
             THEN IF Faulty(c, "get_item_func")
                  THEN Raise(Call(c, "get_item_func"), "get_item_func")
                  ELSE [Call(c, "get_item_func") EXCEPT
                          !.item = IF c.ch.fetch /\ c.id \in Present(c.sess)
                                   THEN c.id ELSE 0]
             ELSE IF Faulty(c, "query_get")
                  THEN Raise(Call(c, "query_get"), "query_get")
                  ELSE [Call(c, "query_get") EXCEPT
                          !.item = IF c.id \in Present(c.sess) THEN c.id ELSE 0]
    IN IF Running(d) /\ d.item # 0 /\ IsDeleted(d.sess[d.item])
       THEN [d EXCEPT !.item = 0]
       ELSE d

\* get_item_func may hand back a Response instead of a row
get_item_or_response(c, rollsBack) ==
    IF "get_item_func" \in c.rc.hooks /\ ShortCircuits(c, "get_item_func")
    THEN LET d == Call(c, "get_item_func")
         IN Return(IF rollsBack THEN rollback(d) ELSE d, HookResponse("get_item_func"))
    ELSE LET d == get_item(c)
         IN IF Running(d) /\ d.item = 0 THEN Fail(d, MSG_NOT_FOUND) ELSE d

\* -------------------------------------------------- CommonItemResource.put
put_get_item(c) == get_item_or_response(c, TRUE)

put_check(c) ==
    LET d == check_item_exist(c, c.rc.put_check_exist_fields, c.args)
    IN IF Running(d) /\ d.found # 0 /\ d.sess[d.found].id # d.sess[d.item].id
       THEN Fail(d, MSG_DUPLICATE)
       ELSE d

\* mutant: a None value is not assigned
SetAttrs_skip_none(rec, args) ==
    [k \in DOMAIN rec |-> IF k \in DOMAIN args /\ args[k] # NULL THEN args[k] ELSE rec[k]]

\* for key, value in args.items(): if hasattr(item, key): setattr(...)
SetAttrs(rec, args) ==
    [k \in DOMAIN rec |-> IF k \in DOMAIN args THEN args[k] ELSE rec[k]]

\* put_preprocess_func(item, args) is handed the row: with pre = "apply" it
\* assigns the arguments to the row itself before it returns args
put_pre(c) ==
    LET d == PreHook(c, "put_preprocess_func", TRUE)
    IN IF Running(d) /\ "put_preprocess_func" \in c.rc.hooks /\ c.ch.pre = "apply"
       THEN [d EXCEPT !.sess[c.item] = SetAttrs(@, c.args)]
       ELSE d

put_update(c) ==
    [Call(c, "setattr") EXCEPT !.sess[c.item] = SetAttrs(c.sess[c.item], c.args)]

put_post(c) == Hook(c, "put_postprocess_func", TRUE)

put_serialize(c) ==
    IF "put_query_data_process_func" \in c.rc.hooks
    THEN SerializeHook(c, "put_query_data_process_func", FALSE, TRUE)
    ELSE query_data_process(c, FALSE)

put_final(c) == Hook(c, "put_process_return_data", TRUE)

put_try(c) ==
    LET s1 == put_get_item(c)
        s2 == Then(s1, put_pre)
        s3 == Then(s2, put_check)
        s4 == Then(s3, put_update)
        s5 == Then(s4, put_post)
        s6 == Then(s5, put_serialize)
        s7 == Then(s6, put_final)
    IN Then(s7, commit)

put_body(c) ==
    LET p == Parse(c, WRITE_PARSER_CONFIG)
    IN IF ~Running(p) THEN p
       ELSE IF DOMAIN p.args = {} THEN Fail(p, MSG_PARAMS_REQUIRED)
       ELSE LET t == put_try(p)
            IN IF t.exc # "none"
               THEN Fail(rollback(Catch(t)), MSG_UPDATE_FAILED)
               ELSE IF t.resp # NoResp THEN t
               ELSE Return(t, http_resp(SUCCESS_CODE, MSG_UPDATE_OK,
                                        [key |-> c.id, item |-> t.data[1]], 200))

put_logged(c) == access_logger(c, put_body(c))
put(c) == method_control(c, put_logged(c))

\* ----------------------------------------------- CommonItemResource.delete
delete_get_item(c) == get_item_or_response(c, TRUE)

delete_pre(c) == PreHook(c, "delete_preprocess_func", TRUE)

\* mutant: every model is deleted physically
delete_mark_physical(c) ==
    [Call(c, "session_delete") EXCEPT !.sess[c.item] = Absent]

delete_mark(c) ==
    IF HasAttr(c.sess[c.item], "is_delete")
    THEN [Call(c, "set_is_delete") EXCEPT !.sess[c.item].is_delete = 1]
    ELSE [Call(c, "session_delete") EXCEPT !.sess[c.item] = Absent]

delete_post(c) == Hook(c, "delete_postprocess_func", TRUE)

\* mutant: the transaction is committed before the post-hook is called
delete_try_commit_first(c) ==
    LET s1 == delete_get_item(c)
        s2 == Then(s1, delete_pre)
        s3 == Then(s2, delete_mark)
        s4 == Then(s3, commit)
    IN Then(s4, delete_post)

delete_try(c) ==
    LET s1 == delete_get_item(c)
        s2 == Then(s1, delete_pre)
        s3 == Then(s2, delete_mark)
        s4 == Then(s3, delete_post)
    IN Then(s4, commit)

delete_body(c) ==
    LET p == Parse(c, ITEM_PARSER_CONFIG)
    IN IF ~Running(p) THEN p
       ELSE LET t == delete_try(p)
            IN IF t.exc # "none"
               THEN Fail(rollback(Catch(t)), MSG_DELETE_FAILED)
               ELSE IF t.resp # NoResp THEN t
               ELSE Return(t, http_resp(SUCCESS_CODE, MSG_DELETE_OK, [key |-> c.id], 200))

delete_logged(c) == access_logger(c, delete_body(c))
delete(c) == method_control(c, delete_logged(c))

\* ----------------------------------------- CommonListResource.get_query
\* the rows of S ordered by create_time, latest first
RECURSIVE SortDesc(_, _)
SortDesc(store, S) ==
    IF S = {} THEN <<>>
    ELSE LET top == CHOOSE i \in S :
                       \A j \in S : store[j].create_time <= store[i].create_time
         IN <<top>> \o SortDesc(store, S \ {top})

\* query.offset(o).limit(n) on an ordered result
Window(rows, o, n) ==
    LET last == IF o + n < Len(rows) THEN o + n ELSE Len(rows)
    IN SubSeq(rows, o + 1, last)

\* mutant: the page pair is tested first
Paginate_page_first(args, rows) ==
    IF "page" \in DOMAIN args /\ "per_page" \in DOMAIN args
    THEN Window(rows, args.per_page * (args.page - 1), args.per_page)
    ELSE IF "start" \in DOMAIN args /\ "number" \in DOMAIN args
    THEN Window(rows, args.start, args.number)
    ELSE rows

\* the pagination both pairs of paging arguments select
Paginate(args, rows) ==
    IF "start" \in DOMAIN args /\ "number" \in DOMAIN args
    THEN Window(rows, args.start, args.number)
    ELSE IF "page" \in DOMAIN args /\ "per_page" \in DOMAIN args
    THEN Window(rows, args.per_page * (args.page - 1), args.per_page)
    ELSE rows

\* the rows the unpaginated query selects: soft-delete predicate, then the
\* resource's add_query_filter (here: name equals the name argument)
Filtered(c) ==
    LET base == Present(c.sess)
        live == IF "is_delete" \in ModelAttrs(c.model)
                THEN {i \in base : c.sess[i].is_delete = 0}
                ELSE base
    IN IF "add_query_filter" \in c.rc.hooks /\ "name" \in DOMAIN c.args
       THEN {i \in live : c.sess[i].name = c.args.name}
       ELSE live

\* mutant: the total is counted on the paginated query
get_query_count_after_window(c) ==
    LET f == IF "add_query_filter" \in c.rc.hooks
             THEN Plain(c, "add_query_filter") ELSE c
        t == IF Running(f) THEN Plain(f, "count") ELSE f
        sorted == SortDesc(c.sess, Filtered(c))
    IN IF Running(t)
       THEN [t EXCEPT !.total = Len(Paginate(c.args, sorted)),
                      !.rows = Paginate(c.args, sorted)]
       ELSE t

\* get_query: leaves the total in c.total and the built query, as the
\* sequence it will yield, in c.rows
get_query(c) ==
    LET f == IF "add_query_filter" \in c.rc.hooks
             THEN Plain(c, "add_query_filter") ELSE c
        t == IF Running(f) THEN Plain(f, "count") ELSE f
        \* both modelled models have create_time, so order_by always applies
        sorted == SortDesc(c.sess, Filtered(c))
    IN IF Running(t)
       THEN [t EXCEPT !.total = Cardinality(Filtered(c)),
                      !.rows = Paginate(c.args, sorted)]
       ELSE t

get_items(c) ==
    LET q == get_query(c)
    IN IF Running(q)
       THEN IF Faulty(q, "all") THEN [Raise(Call(q, "all"), "all") EXCEPT !.rows = <<>>]
            ELSE Call(q, "all")
       ELSE [q EXCEPT !.rows = <<>>]

\* -------------------------------------------------- CommonListResource.get
list_pre(c) == PreHook(c, "get_preprocess_func", FALSE)

\* the result of get_postprocess_func is not tested for a Response: a
\* Response it returns replaces items (c.item = -1 marks that) and goes on
\* to the serializer
list_post(c) ==
    IF "get_postprocess_func" \in c.rc.hooks /\ ShortCircuits(c, "get_postprocess_func")
    THEN [Call(c, "get_postprocess_func") EXCEPT !.item = -1]
    ELSE Hook(c, "get_postprocess_func", FALSE)

list_serialize(c) ==
    IF "get_query_data_process_func" \in c.rc.hooks
    THEN SerializeHook(c, "get_query_data_process_func", c.item # -1, FALSE)
    ELSE query_data_process(c, c.item # -1)

list_final(c) == Hook(c, "get_process_return_data", FALSE)

\* mutant: the list pipeline ends with a commit
list_get_try_commit(c) ==
    LET s1 == list_pre(c)
        s2 == Then(s1, get_items)
        s3 == Then(s2, list_post)
        s4 == Then(s3, list_serialize)
        s5 == Then(s4, list_final)
    IN Then(s5, commit)

list_get_try(c) ==
    LET s1 == list_pre(c)
        s2 == Then(s1, get_items)
        s3 == Then(s2, list_post)
        s4 == Then(s3, list_serialize)
    IN Then(s4, list_final)

\* mutant: an exception in the pipeline gives an empty page
list_get_body_empty_page(c) ==
    LET p == Parse(c, LIST_PARSER_CONFIG)
    IN IF ~Running(p) THEN p
       ELSE LET t == list_get_try(p)
            IN IF t.exc # "none"
               THEN Return(Catch(t), http_resp(SUCCESS_CODE, MSG_OK,
                                               [total |-> 0, items |-> <<>>], 200))
               ELSE IF t.resp # NoResp THEN t
               ELSE Return(t, http_resp(SUCCESS_CODE, MSG_OK,
                                        [total |-> t.total, items |-> t.data], 200))

list_get_body(c) ==
    LET p == Parse(c, LIST_PARSER_CONFIG)
    IN IF ~Running(p) THEN p
       ELSE LET t == list_get_try(p)
            IN IF t.exc # "none"
               THEN Fail(Catch(t), MSG_QUERY_FAILED)
               ELSE IF t.resp # NoResp THEN t
               ELSE Return(t, http_resp(SUCCESS_CODE, MSG_OK,
                                        [total |-> t.total, items |-> t.data], 200))

list_get_logged(c) == access_logger(c, list_get_body(c))
list_get(c) == method_control(c, list_get_logged(c))

\* -------------------------------------------------- CommonItemResource.get
item_pre(c) == PreHook(c, "get_preprocess_func", FALSE)

\* Step2: get_item_by_join_func when the resource has it, else get_item;
\* the row the join hook returns is not tested for is_delete
item_fetch(c) ==
    IF "get_item_by_join_func" \in c.rc.hooks
    THEN LET d == Hook(c, "get_item_by_join_func", FALSE)
             e == IF Running(d)
                  THEN [d EXCEPT !.item = IF c.ch.fetch /\ c.id \in Present(c.sess)
                                          THEN c.id ELSE 0]
                  ELSE d
         IN IF Running(e) /\ e.item = 0 THEN Fail(e, MSG_NOT_FOUND) ELSE e
    ELSE get_item_or_response(c, FALSE)

item_post(c) == Hook(c, "get_postprocess_func", FALSE)

item_serialize(c) ==
    IF "get_query_data_process_func" \in c.rc.hooks
    THEN SerializeHook(c, "get_query_data_process_func", FALSE, FALSE)
    ELSE query_data_process(c, FALSE)

item_final(c) == Hook(c, "get_process_return_data", FALSE)

item_get_try(c) ==
    LET s1 == item_pre(c)
        s2 == Then(s1, item_fetch)
        s3 == Then(s2, item_post)
        s4 == Then(s3, item_serialize)
    IN Then(s4, item_final)

item_get_body(c) ==
    LET p == Parse(c, ITEM_PARSER_CONFIG)
    IN IF ~Running(p) THEN p
       ELSE LET t == item_get_try(p)
            IN IF t.exc # "none"
               THEN Fail(Catch(t), MSG_QUERY_FAILED)
               ELSE IF t.resp # NoResp THEN t
               ELSE Return(t, http_resp(SUCCESS_CODE, MSG_OK,
                                        [key |-> c.id, item |-> t.data[1]], 200))

item_get_logged(c) == access_logger(c, item_get_body(c))
item_get(c) == method_control(c, item_get_logged(c))

\* ------------------------------------------------------- resource classes
Verbs == {"GET", "POST", "PUT", "DELETE"}

SerializerHooks ==
    {"get_query_data_process_func", "post_query_data_process_func",
     "put_query_data_process_func"}

PipelineHooks ==
    SerializerHooks \cup
    {"get_preprocess_func", "get_postprocess_func", "get_process_return_data",
     "add_query_filter",
     "post_preprocess_func", "post_postprocess_func", "post_process_return_data",
     "put_preprocess_func", "put_postprocess_func", "put_process_return_data",
     "delete_preprocess_func", "delete_postprocess_func"}

LookupHooks == {"get_item_func", "check_item_exist_func"}

\* the hook sets of the resource classes registered over the model
HookSets ==
    {{}, SerializerHooks, PipelineHooks, PipelineHooks \cup LookupHooks,
     SerializerHooks \cup {"get_item_by_join_func"}}

\* the hooks a handler can reach
HooksOf(h) ==
    CASE h = "list_get" ->
           {"get_preprocess_func", "add_query_filter", "get_postprocess_func",
            "get_query_data_process_func", "get_process_return_data"}
      [] h = "post" ->
           {"check_item_exist_func", "post_preprocess_func", "post_postprocess_func",
            "post_query_data_process_func", "post_process_return_data"}
      [] h = "item_get" ->
           {"get_preprocess_func", "get_item_by_join_func", "get_item_func",
            "get_postprocess_func", "get_query_data_process_func",
            "get_process_return_data"}
      [] h = "put" ->
           {"get_item_func", "check_item_exist_func", "put_preprocess_func",
            "put_postprocess_func", "put_query_data_process_func",
            "put_process_return_data"}
      [] h = "delete" ->
           {"get_item_func", "delete_preprocess_func", "delete_postprocess_func"}

AllowSets == {{}, {"GET"}, Verbs}

CheckFieldSets == {{}, {"name"}}

\* the resource classes as far as handler h can tell them apart
ResourceClasses(h) ==
    {[hooks |-> hs \cap HooksOf(h),
      post_check_exist_fields |-> IF h = "post" THEN pc ELSE {},
      put_check_exist_fields |-> IF h = "put" THEN pc ELSE {},
      ALLOW_METHOD |-> am] :
        hs \in HookSets, pc \in CheckFieldSets, am \in AllowSets}

\* ------------------------------------------------------------ request inputs
\* the steps of handler h outside hooks that call a collaborator
CollaboratorSteps(h) ==
    CASE h = "list_get" -> {"count", "all"}
      [] h = "post" -> {"get_item_by_filters", "construct", "flush", "commit"}
      [] h = "item_get" -> {"query_get"}
      [] h = "put" -> {"query_get", "get_item_by_filters", "commit"}
      [] h = "delete" -> {"query_get", "commit"}

\* hooks whose returned Response the handler passes on
StoppingHooks(h) == HooksOf(h) \ {"check_item_exist_func", "add_query_filter"}

PreHooks ==
    {"get_preprocess_func", "post_preprocess_func", "put_preprocess_func",
     "delete_preprocess_func"}

\* what can happen in a request of handler h on resource class rc over store:
\*   stop, kind  the step that raises or the hook that returns a Response
\*   pick        the row first() or check_item_exist_func comes up with
\*   fetch       whether get_item_func / get_item_by_join_func returns the row
\* (a request in which something raises or short-circuits is tried with the
\* lowest row and a lookup hook that returns the row)
\*   pre         what the pre-hook makes of args (and, in an update, of the row)
Choices(h, rc, store) ==
    LET stops ==
            {[stop |-> "none", kind |-> "none"],
             [stop |-> "parse", kind |-> "raise"],
             [stop |-> "parse", kind |-> "bad_request"]}
            \cup {[stop |-> s, kind |-> "raise"] : s \in CollaboratorSteps(h) \cup rc.hooks}
            \cup {[stop |-> s, kind |-> "resp"] : s \in StoppingHooks(h) \cap rc.hooks}
            \cup {[stop |-> s, kind |-> "bad_request"] : s \in PreHooks \cap rc.hooks}
        pres(st) == IF st.stop = "none" /\ rc.hooks \cap PreHooks # {} /\ h \in {"post", "put"}
                    THEN {"same", "null_name"} \cup (IF h = "put" THEN {"apply"} ELSE {})
                    ELSE {"same"}
        picks(st) == IF /\ st.stop = "none"
                        /\ \/ "check_item_exist_func" \in rc.hooks
                           \/ (h = "post" /\ rc.post_check_exist_fields = {})
                           \/ (h = "put" /\ rc.put_check_exist_fields = {})
                     THEN Present(store) \cup {0} ELSE {0}
        fetches(st) == IF /\ st.stop = "none"
                          /\ rc.hooks \cap {"get_item_func", "get_item_by_join_func"} # {}
                       THEN BOOLEAN ELSE {TRUE}
    IN UNION {{[stop |-> st.stop, kind |-> st.kind, pick |-> pk, fetch |-> ft, pre |-> pr] :
                 pk \in picks(st), ft \in fetches(st), pr \in pres(st)} : st \in stops}

WritePayloads ==
    {EmptyMap, [extra |-> "e"], [name |-> "a"], [name |-> "b", extra |-> "e"]}

\* the paging arguments a list request can carry: two assignments of values
WindowProfiles ==
    {[start |-> 0, number |-> 1, page |-> 2, per_page |-> 1],
     [start |-> 1, number |-> 2, page |-> 1, per_page |-> 2]}

\* the query strings of a list request: any subset of the paging arguments
\* and, with the complete and the empty subsets, the name a filtering
\* resource selects on
ListPayloads ==
    {[k \in ks |-> w[k]] : ks \in SUBSET _GET_COMMON_PARAMS, w \in WindowProfiles}
    \cup {[k \in ks \cup {"name"} |-> IF k = "name" THEN n ELSE w[k]] :
            ks \in {{}, {"start", "number"}, {"page", "per_page"}},
            w \in WindowProfiles, n \in Names}

\* the inputs tried in a request in which a collaborator raises or a hook
\* returns a Response: no query string and each complete one; a body with
\* the name and one with every argument
ListPayloadsOnStop == {EmptyMap} \cup WindowProfiles
WritePayloadsOnStop == {[name |-> "a"], [name |-> "b", extra |-> "e"]}

\* ------------------------------------------------------------------- state
VARIABLES
    db,         \* the committed table: id -> row or Absent
    next_id,    \* the next primary key the table hands out
    model,      \* "soft": the model has is_delete; "hard": it has not
    last,       \* the request in flight, once its handler has returned
    prev        \* history: the request served before it (kept by SpecTwice only)

vars == <<db, next_id, model, last, prev>>

\* what is kept of a finished request
Outcome(c) ==
    [h |-> c.h, rc |-> c.rc, id |-> c.id, args |-> c.args, item |-> c.item,
     found |-> c.found, rows |-> c.rows, total |-> c.total, selected |-> {},
     filters |-> EmptyMap, payload |-> EmptyMap, configs |-> {}, same0 |-> c.same0, stop |-> c.ch.stop, kind |-> c.ch.kind,
     caught |-> c.caught,
     trace |-> c.trace, resp |-> c.resp, dirty |-> c.dirty, pending |-> c.sess # c.db]

NoRequest == Outcome(NewCtx("none", [hooks |-> {}, post_check_exist_fields |-> {},
                                     put_check_exist_fields |-> {}, ALLOW_METHOD |-> {}],
                            "soft", 0, EmptyMap, NoChoice, [i \in Ids |-> Absent], 1))

\* the tables a deployment can hold: rows 1..k, each live or soft-deleted
Row(m, i, nm, del) ==
    IF m = "soft" THEN [id |-> i, name |-> nm, create_time |-> i, is_delete |-> del]
    ELSE [id |-> i, name |-> nm, create_time |-> i]

Tables(m) ==
    {t \in [Ids -> {Absent} \cup {Row(m, i, nm, del) :
                                    i \in Ids, nm \in Names \cup {NULL}, del \in {0, 1}}] :
        /\ \A i \in Ids : t[i] # Absent => t[i].id = i
        /\ \A i \in Ids : t[i] # Absent => \A j \in 1..i : t[j] # Absent}

Init ==
    /\ model \in {"soft", "hard"}
    /\ db \in Tables(model)
    /\ next_id = Cardinality(Present(db)) + 1
    /\ last = NoRequest
    /\ prev = NoRequest

\* the state after the request whose context ended as c
Finish(c) ==
    \* the table hands out at most MaxId keys
    /\ c.h = "post" /\ c.item # 0 => c.item <= MaxId
    /\ db' = c.db
    /\ next_id' = c.next
    /\ last' = Outcome(c)
    /\ UNCHANGED <<model, prev>>

\* a request arrives when no other is in flight (requests are served one
\* after the other) and its handler runs to its return
ListGet ==
    /\ last = NoRequest
    /\ \E rc \in ResourceClasses("list_get") :
          IF Verb("list_get") \notin rc.ALLOW_METHOD
          \* a refused request: its inputs decide nothing
          THEN Finish(list_get(NewCtx("list_get", rc, model, 0, EmptyMap, NoChoice, db, next_id)))
          ELSE \E payload \in ListPayloads, ch \in Choices("list_get", rc, db) :
                  /\ ch.stop # "none" => payload \in ListPayloadsOnStop
                  /\ Finish(list_get(NewCtx("list_get", rc, model, 0, payload, ch, db, next_id)))

Post ==
    /\ last = NoRequest
    /\ \E rc \in ResourceClasses("post") :
          IF Verb("post") \notin rc.ALLOW_METHOD
          \* a refused request: its inputs decide nothing
          THEN Finish(post(NewCtx("post", rc, model, 0, EmptyMap, NoChoice, db, next_id)))
          ELSE \E payload \in WritePayloads, ch \in Choices("post", rc, db) :
                  /\ ch.stop # "none" => payload \in WritePayloadsOnStop
                  /\ Finish(post(NewCtx("post", rc, model, 0, payload, ch, db, next_id)))

ItemGet ==
    /\ last = NoRequest
    /\ \E id \in Ids, rc \in ResourceClasses("item_get") :
          IF Verb("item_get") \notin rc.ALLOW_METHOD
          \* a refused request: its inputs decide nothing
          THEN Finish(item_get(NewCtx("item_get", rc, model, id, EmptyMap, NoChoice, db, next_id)))
          ELSE \E payload \in {EmptyMap}, ch \in Choices("item_get", rc, db) :
                  Finish(item_get(NewCtx("item_get", rc, model, id, payload, ch, db, next_id)))

Put ==
    /\ last = NoRequest
    /\ \E id \in Ids, rc \in ResourceClasses("put") :
          IF Verb("put") \notin rc.ALLOW_METHOD
          \* a refused request: its inputs decide nothing
          THEN Finish(put(NewCtx("put", rc, model, id, EmptyMap, NoChoice, db, next_id)))
          ELSE \E payload \in WritePayloads, ch \in Choices("put", rc, db) :
                  /\ ch.stop # "none" => payload \in WritePayloadsOnStop
                  /\ Finish(put(NewCtx("put", rc, model, id, payload, ch, db, next_id)))

Delete ==
    /\ last = NoRequest
    /\ \E id \in Ids, rc \in ResourceClasses("delete") :
          IF Verb("delete") \notin rc.ALLOW_METHOD
          \* a refused request: its inputs decide nothing
          THEN Finish(delete(NewCtx("delete", rc, model, id, EmptyMap, NoChoice, db, next_id)))
          ELSE \E payload \in {EmptyMap}, ch \in Choices("delete", rc, db) :
                  Finish(delete(NewCtx("delete", rc, model, id, payload, ch, db, next_id)))

\* the after_request hook: the response leaves and the request's context
\* (g, the resource instance) is dropped
inject_request_id ==
    /\ last # NoRequest
    /\ last' = NoRequest
    /\ UNCHANGED <<db, next_id, model, prev>>

\* the filter maps a caller of the static filter helpers passes
Dict(d) == [dict |-> TRUE, v |-> d]

FilterMaps(m) ==
    {EmptyMap,
     [name |-> Scalar("a")],
     [create_time |-> Dict([gt |-> 1])],
     [create_time |-> Dict([gt |-> 1, le |-> 1])],
     [name |-> Scalar("b"), create_time |-> Dict([ne |-> 1])],
     [create_time |-> Dict([lt |-> 2])],
     [create_time |-> Dict([ge |-> 2])],
     [create_time |-> Dict([le |-> 1])],
     [create_time |-> Dict([lt |-> 2, ge |-> 2])],
     [create_time |-> Dict([ge |-> 2, le |-> 1, ne |-> 2])],
     [create_time |-> Dict([le |-> 1, ne |-> 1])],
     [create_time |-> Dict([like |-> 1])]}
    \cup IF "is_delete" \in ModelAttrs(m)
         THEN {[is_delete |-> Scalar(1)],
               [is_delete |-> Dict([ne |-> 0])],
               [name |-> Scalar("a"), is_delete |-> Dict([gt |-> 0])]}
         ELSE {}

\* code outside a request pipeline (a hook's body, a task) calls the three
\* static helpers with one filter map
FilterLookup ==
    /\ last = NoRequest
    /\ \E f \in FilterMaps(model), pick \in Present(db) \cup {0} :
          last' = [NoRequest EXCEPT
                     !.h = "filters",
                     !.filters = f,
                     !.found = get_item_by_filters(model, db, f, pick),
                     !.selected = get_items_by_filters(model, db, f),
                     !.total = get_count_by_filters(model, db, f)]
    /\ UNCHANGED <<db, next_id, model, prev>>

\* the arguments requests carry for a parser: present with a value, also
\* a falsy one (the empty string, 0), or missing
ParsePayloads ==
    UNION {[ks -> {"a", "", "0"}] : ks \in SUBSET {"name", "extra", "page"}}

\* a handler's first statement on its own: get_parser_args with the
\* handler's parser configuration
ParseArgs ==
    /\ last = NoRequest
    /\ \E configs \in {LIST_PARSER_CONFIG, WRITE_PARSER_CONFIG}, payload \in ParsePayloads :
          last' = [NoRequest EXCEPT
                     !.h = "parse",
                     !.configs = configs,
                     !.payload = payload,
                     !.args = get_parser_args(configs, payload)]
    /\ UNCHANGED <<db, next_id, model, prev>>

Next ==
    \/ ListGet \/ Post \/ ItemGet \/ Put \/ Delete
    \/ FilterLookup \/ ParseArgs \/ inject_request_id

Spec == Init /\ [][Next]_vars

\* ----------------------------------------------- two requests in a row
\* a create request on a resource without hooks, its verb allowed, with no
\* collaborator failing
PostPlain ==
    /\ last = NoRequest
    /\ \E rc \in ResourceClasses("post"), payload \in WritePayloads,
          pick \in Present(db) \cup {0} :
          /\ rc.hooks = {}
          /\ "POST" \in rc.ALLOW_METHOD
          /\ Finish(post(NewCtx("post", rc, model, 0, payload,
                                [NoChoice EXCEPT !.pick = pick], db, next_id)))

\* the response leaves, and the request is remembered as the previous one
Remember ==
    /\ last # NoRequest
    /\ prev' = last
    /\ last' = NoRequest
    /\ UNCHANGED <<db, next_id, model>>

NextTwice == PostPlain \/ Remember

SpecTwice == Init /\ [][NextTwice]_vars

\* ------------------------------------------- two create requests at once
\* Two create requests are served by two workers, each with a session of
\* its own over the one table.  A worker runs from one storage call to the
\* next in one step: the existence lookup, the flush, the commit.  What a
\* session has flushed is seen by the other only once it is committed; the
\* table hands out primary keys at flush.
Workers == {1, 2}

\* the resources the two requests are sent to: the uniqueness field name is
\* declared; the serializer is the default one or a hook; the lookup is
\* left to check_item_exist or made by check_item_exist_func
ConcurrentClasses ==
    {[hooks |-> hs, post_check_exist_fields |-> {"name"}, put_check_exist_fields |-> {},
      ALLOW_METHOD |-> Verbs] :
        hs \in {{}, {"post_query_data_process_func"},
                {"check_item_exist_func", "post_query_data_process_func"}}}

\* the context of a worker as its session sees the table now: the committed
\* rows and the row the session itself has flushed
SessionView(c) ==
    [c EXCEPT !.db = db,
              !.next = next_id,
              !.snext = next_id,
              !.sess = [i \in Ids |-> IF i = c.item /\ c.item # 0 THEN c.sess[i] ELSE db[i]]]

\* check_item_exist_func as a resource writes it for its declared field:
\* the live row with the name of the request, if there is one
LookupChoice(payload) ==
    LET S == SameName(db, payload)
    IN [NoChoice EXCEPT !.pick = IF S = {} THEN 0 ELSE Min(S)]

\* the except clause of post and the two wrappers, once the handler returns
post_return(c) ==
    LET t == IF c.exc # "none" THEN Fail(rollback(Catch(c)), MSG_CREATE_FAILED) ELSE c
    IN method_control(c, access_logger(c, t))

InitConcurrent == Init

\* both requests arrive and are parsed
Arrive ==
    /\ last = NoRequest
    /\ \E rc \in ConcurrentClasses, p1, p2 \in {[name |-> "a"], [name |-> "b"]} :
          last' = [h |-> "concurrent",
                   pc |-> [w \in Workers |-> "lookup"],
                   c |-> [w \in Workers |->
                            Parse(NewCtx("post", rc, model, 0, IF w = 1 THEN p1 ELSE p2,
                                         NoChoice, db, next_id), WRITE_PARSER_CONFIG)]]
    /\ UNCHANGED <<db, next_id, model, prev>>

\* Step 1 of post in worker w: the existence check
Lookup ==
    /\ last # NoRequest /\ last.h = "concurrent"
    /\ \E w \in Workers :
          /\ last.pc[w] = "lookup"
          /\ LET c0 == [SessionView(last.c[w]) EXCEPT !.ch = LookupChoice(last.c[w].payload)]
                 c1 == post_check(c0)
             IN last' = IF Running(c1)
                        THEN [last EXCEPT !.pc[w] = "flush", !.c[w] = c1]
                        ELSE [last EXCEPT !.pc[w] = "done", !.c[w] = post_return(c1)]
    /\ UNCHANGED <<db, next_id, model, prev>>

\* Step 2 and Step 3 of post in worker w: the row is built, added, flushed
Flush ==
    /\ last # NoRequest /\ last.h = "concurrent"
    /\ \E w \in Workers :
          /\ last.pc[w] = "flush"
          /\ next_id <= MaxId
          /\ LET c1 == post_create(post_pre(SessionView(last.c[w])))
             IN /\ last' = [last EXCEPT !.pc[w] = "commit", !.c[w] = c1]
                /\ next_id' = c1.snext
    /\ UNCHANGED <<db, model, prev>>

\* Step 4 to Step 7 of post in worker w, and its return
Commit ==
    /\ last # NoRequest /\ last.h = "concurrent"
    /\ \E w \in Workers :
          /\ last.pc[w] = "commit"
          /\ LET c1 == post_post(SessionView(last.c[w]))
                 c2 == IF Running(c1) THEN post_serialize(c1) ELSE c1
                 c3 == IF Running(c2) THEN post_final(c2) ELSE c2
                 c4 == IF Running(c3) THEN commit(c3) ELSE c3
                 c5 == IF Running(c4)
                       THEN Return(c4, http_resp(SUCCESS_CODE, MSG_CREATE_OK,
                                                 [item |-> c4.data[1]], 200))
                       ELSE c4
             IN /\ db' = c5.db
                /\ last' = [last EXCEPT !.pc[w] = "done", !.c[w] = post_return(c5)]
    /\ UNCHANGED <<next_id, model, prev>>

NextConcurrent == Arrive \/ Lookup \/ Flush \/ Commit

SpecConcurrent == InitConcurrent /\ [][NextConcurrent]_vars

\* ------------------------------------------------ the envelope builder
\* the X-Request-Id header of a request: not sent, sent empty, sent with a
\* value
NoHeader == <<>>
RequestIdHeaders == {NoHeader, <<"">>, <<"r1">>, <<"r2">>}

\* str(uuid.uuid4())
UUID4 == "uuid4"

\* request.headers.get("X-Request-Id", str(uuid.uuid4()))
set_request_id(header) == IF header = NoHeader THEN UUID4 ELSE header[1]

\* the body common_func.http_resp hands to jsonify; data is <<>> for None
\* and <<d>> for a payload d; request_id is tested for truth
return_data(code, message, data, request_id) ==
    LET base == [code |-> <<code>>, message |-> <<message>>,
                 data |-> IF data # <<>> THEN data ELSE <<EmptyMap>>]
    IN IF request_id # ""
       THEN [k \in DOMAIN base \cup {"request_id"} |->
               IF k = "request_id" THEN <<request_id>> ELSE base[k]]
       ELSE base

\* the arguments the callers of http_resp pass
EnvelopeCodes == {SUCCESS_CODE, FAILED_CODE}
EnvelopeMessages == {MSG_OK, MSG_NOT_FOUND}
EnvelopeData == {<<>>, <<[key |-> 1]>>}
EnvelopeStatus == {200, 404, 500}

InitEnvelope ==
    /\ model = "soft"
    /\ db = [i \in Ids |-> Absent]
    /\ next_id = 1
    /\ last = NoRequest
    /\ prev = NoRequest

\* before_request: g.request_id is set from the header
SetRequestId ==
    /\ last = NoRequest
    /\ \E header \in RequestIdHeaders :
          last' = [h |-> "before_request", header |-> header,
                   request_id |-> set_request_id(header)]
    /\ UNCHANGED <<db, next_id, model, prev>>

\* a handler or a decorator builds the response with http_resp
BuildEnvelope ==
    /\ last # NoRequest
    /\ last.h = "before_request"
    /\ \E code \in EnvelopeCodes, message \in EnvelopeMessages,
          data \in EnvelopeData, status \in EnvelopeStatus :
          last' = [h |-> "http_resp", header |-> last.header,
                   request_id |-> last.request_id,
                   \* CommonResource.__init__: self.request_id = g.request_id
                   self_request_id |-> last.request_id,
                   code |-> code, message |-> message, data |-> data, status |-> status,
                   body |-> return_data(code, message, data, last.request_id),
                   status_code |-> status]
    /\ UNCHANGED <<db, next_id, model, prev>>

\* after_request: inject_request_id puts g.request_id in the response's
\* X-Request-Id header
InjectHeader ==
    /\ last # NoRequest
    /\ last.h = "http_resp"
    /\ last' = [h |-> "response", header |-> last.header, request_id |-> last.request_id,
                self_request_id |-> last.self_request_id, body |-> last.body,
                status_code |-> last.status_code, x_request_id |-> last.request_id]
    /\ UNCHANGED <<db, next_id, model, prev>>

NextEnvelope == SetRequestId \/ BuildEnvelope \/ InjectHeader

SpecEnvelope == InitEnvelope /\ [][NextEnvelope]_vars

\* -------------------------------------------- common_func: serialization
\* a field value: its type and its content, a tuple of strings
NullValue == [t |-> "null", v |-> <<>>]
StrValue(x) == [t |-> "str", v |-> <<x>>]
DictValue(x) == [t |-> "dict", v |-> <<x>>]
DatetimeValue(day, time) == [t |-> "datetime", v |-> <<day, time>>]

\* None as the item
NoItem == [k \in {} |-> NullValue]

\* datetime.strftime with '%Y-%m-%d %H:%M:%S' or '%Y-%m-%d'
strftime(x, date_format) ==
    [t |-> "str", v |-> IF date_format = 1 THEN <<x.v[1], x.v[2]>> ELSE <<x.v[1]>>]

\* utils.dumps_json_str: the JSON text of data
dumps_json_str(data) ==
    IF data = NullValue THEN StrValue("{}")
    ELSE [t |-> "str", v |-> <<"json", data.t>> \o data.v]

\* utils.loads_json_str applied to a str that is no JSON text raises
\* (json.loads); a field name is no JSON text
LoadsRaises(data) == data.t = "str" /\ data.v # <<>> /\ data.v[1] # "json"

\* the fields of item_features that item has, with a value that is not None
Emitted(item, item_features) ==
    {f \in item_features : f \in DOMAIN item /\ item[f] # NullValue}

\* mutant: the None test comes after the transforms
process_query_item_data_null_last(item, date_format, item_features, json_load_features, json_dump_features) ==
    IF item = NoItem THEN [exc |-> "none", out |-> NoItem]
    ELSE IF \E f \in item_features \cap DOMAIN item :
               f \in json_load_features /\ LoadsRaises(StrValue(f))
         THEN [exc |-> "JSONDecodeError", out |-> NoItem]
    ELSE [exc |-> "none",
          out |-> [f \in item_features \cap DOMAIN item |->
                     IF f \in json_dump_features THEN dumps_json_str(StrValue(f))
                     ELSE item[f]]]

\* __process_query_item_data called with keyword arguments and a non-empty
\* item_features; out maps each emitted field to its value.  The transforms
\* are handed the field's name (feature), not its value; the datetime test
\* is made on the name, a str
process_query_item_data(item, date_format, item_features, json_load_features, json_dump_features) ==
    IF item = NoItem THEN [exc |-> "none", out |-> NoItem]
    ELSE IF \E f \in Emitted(item, item_features) :
               f \in json_load_features /\ LoadsRaises(StrValue(f))
         THEN [exc |-> "JSONDecodeError", out |-> NoItem]
    ELSE [exc |-> "none",
          out |-> [f \in item_features \cap DOMAIN item |->
                     IF item[f] = NullValue THEN NullValue
                     ELSE LET feature_value ==
                                  IF f \in json_dump_features
                                  THEN dumps_json_str(StrValue(f))
                                  ELSE item[f]
                          IN IF StrValue(f).t = "datetime"
                             THEN strftime(feature_value, date_format)
                             ELSE feature_value]]

\* common_func.query_data_process: data is a list of items (isList) or one
\* item <<item>>; it hands __process_query_item_data ItemPositionalArgs
\* positional arguments, which accepts ItemPositionalParams
common_query_data_process(data, isList, date_format, data_features, json_load_features, json_dump_features) ==
    LET calls == IF isList THEN Len(data) ELSE 1
        one(item) == process_query_item_data(item, date_format, data_features,
                                             json_load_features, json_dump_features)
    IN IF calls > 0 /\ ItemPositionalArgs > ItemPositionalParams
       THEN [exc |-> "TypeError", out |-> <<>>]
       ELSE IF \E i \in 1..Len(data) : one(data[i]).exc # "none"
       THEN [exc |-> "JSONDecodeError", out |-> <<>>]
       ELSE [exc |-> "none", out |-> [i \in 1..Len(data) |-> one(data[i]).out]]

\* the records serialized: name and create_time, and meta on some
SerialItems ==
    {NoItem}
    \cup {[name |-> n, create_time |-> DatetimeValue("2024-01-02", "03:04:05")] :
            n \in {NullValue, StrValue("a")}}
    \cup {[name |-> n, create_time |-> DatetimeValue("2024-01-02", "03:04:05"), meta |-> m] :
            n \in {NullValue, StrValue("a")}, m \in {NullValue, DictValue("k")}}

FeatureLists ==
    {{"name"}, {"create_time"}, {"meta"}, {"meta", "ghost"},
     {"name", "create_time", "meta", "ghost"}}
JsonLoadFeatures == {{}, {"meta"}}
JsonDumpFeatures == {{}, {"meta"}, {"name"}}
DateFormats == {0, 1}

\* the data query_data_process is handed: a list of up to two records, or
\* one record
SerialData ==
    {[isList |-> TRUE, data |-> <<>>]}
    \cup {[isList |-> TRUE, data |-> <<a>>] : a \in SerialItems \ {NoItem}}
    \cup {[isList |-> TRUE, data |-> <<a, b>>] : a, b \in SerialItems \ {NoItem}}
    \cup {[isList |-> FALSE, data |-> <<a>>] : a \in SerialItems}

InitSerialize == InitEnvelope

\* one record is serialized
SerializeItem ==
    /\ last = NoRequest
    /\ \E item \in SerialItems, fs \in FeatureLists, jl \in JsonLoadFeatures,
          jd \in JsonDumpFeatures, df \in DateFormats :
          last' = [h |-> "item", item |-> item, item_features |-> fs,
                   json_load_features |-> jl, json_dump_features |-> jd,
                   date_format |-> df,
                   result |-> process_query_item_data(item, df, fs, jl, jd)]
    /\ UNCHANGED <<db, next_id, model, prev>>

\* the resource's query_data_process serializes a query result
SerializeData ==
    /\ last = NoRequest
    /\ \E d \in SerialData, fs \in {{"name"}, {"name", "create_time", "meta", "ghost"}},
          df \in DateFormats :
          last' = [h |-> "data", data |-> d.data, isList |-> d.isList,
                   item_features |-> fs, json_load_features |-> {},
                   json_dump_features |-> {}, date_format |-> df,
                   result |-> common_query_data_process(d.data, d.isList, df, fs, {}, {})]
    /\ UNCHANGED <<db, next_id, model, prev>>

NextSerialize == SerializeItem \/ SerializeData

SpecSerialize == InitSerialize /\ [][NextSerialize]_vars

\* ------------------------------------------------------------ properties
Handlers == {"list_get", "post", "item_get", "put", "delete"}
Writes == {"post", "put", "delete"}
HookNames == PipelineHooks \cup LookupHooks \cup {"get_item_by_join_func"}

Steps(o) == {o.trace[i] : i \in 1..Len(o.trace)}
IsSuccess(o) == o.resp.kind = "envelope" /\ o.resp.code = SUCCESS_CODE
IsFailure(o, message) == o.resp = http_resp(FAILED_CODE, message, EmptyMap, 200)

\* the request passed the gate
Admitted(o) == o.h \in Handlers /\ Verb(o.h) \in o.rc.ALLOW_METHOD

\* an admitted request that looks its row up by primary key (the resource
\* has neither get_item_func nor get_item_by_join_func), in which no
\* collaborator or hook raised and no hook returned a Response
PlainRun(o) ==
    /\ Admitted(o)
    /\ o.rc.hooks \cap {"get_item_func", "get_item_by_join_func"} = {}
    /\ o.stop = "none"

\* the rows of the committed table a list request of outcome o is to count:
\* not soft-deleted, and passing the resource's additional filter
LiveFiltered(o) ==
    {i \in Present(db) :
        /\ model = "soft" => db[i].is_delete = 0
        /\ ("add_query_filter" \in o.rc.hooks /\ "name" \in DOMAIN o.args)
              => db[i].name = o.args.name}

GenericMessage(h) ==
    CASE h \in {"list_get", "item_get"} -> MSG_QUERY_FAILED
      [] h = "post" -> MSG_CREATE_FAILED
      [] h = "put" -> MSG_UPDATE_FAILED
      [] h = "delete" -> MSG_DELETE_FAILED

\* C1: a request whose verb is not a key of the resource's ALLOW_METHOD
\* (the empty dict included) gets the FAILED envelope with HTTP status 404,
\* and no step of the pipeline has run: nothing parsed, no hook called, no
\* storage call, no commit, no rollback; the table is as before.
C1_MethodGate ==
    [][(last'.h \in Handlers /\ Verb(last'.h) \notin last'.rc.ALLOW_METHOD)
          => /\ last'.resp = http_resp(FAILED_CODE, MSG_NOT_ALLOWED, EmptyMap, 404)
             /\ last'.trace = <<>>
             /\ ~last'.pending
             /\ db' = db]_vars

C1_Witness ==
    /\ last.h = "put"
    /\ last.rc.ALLOW_METHOD = {"GET"}
    /\ last.resp.status = 404

\* C2: on a resource without hooks that declares post_check_exist_fields,
\* two successive create requests with the same value of the declared
\* field, the first arriving when no live row has that value, give success
\* and then the 'already exists' failure, and afterwards exactly one live
\* row has that value.
C2_CreateTwice ==
    (/\ prev.h = "post" /\ last.h = "post"
     /\ prev.rc = last.rc
     /\ last.rc.post_check_exist_fields = {"name"}
     /\ "name" \in DOMAIN prev.args /\ "name" \in DOMAIN last.args
     /\ prev.args.name = last.args.name
     /\ prev.same0 = {})
    => /\ IsSuccess(prev)
       /\ IsFailure(last, MSG_EXISTS)
       /\ Cardinality(SameName(db, last.args)) = 1

C2_Witness ==
    /\ prev.h = "post" /\ last.h = "post"
    /\ prev.rc = last.rc
    /\ last.rc.post_check_exist_fields = {"name"}
    /\ "name" \in DOMAIN prev.args /\ "name" \in DOMAIN last.args
    /\ prev.args.name = last.args.name
    /\ prev.same0 = {}
    /\ IsFailure(prev, MSG_CREATE_FAILED)
    /\ IsFailure(last, MSG_CREATE_FAILED)
    /\ SameName(db, last.args) = {}

\* C3: the total of a successful list request is the number of rows that
\* pass the soft-delete predicate and the resource's additional filter,
\* whatever paging arguments the request carries.
C3_TotalUnpaginated ==
    (last.h = "list_get" /\ IsSuccess(last))
    => last.resp.data.total = Cardinality(LiveFiltered(last))

C3_Witness ==
    /\ last.h = "list_get" /\ IsSuccess(last)
    /\ "page" \in DOMAIN last.args /\ "per_page" \in DOMAIN last.args
    /\ last.resp.data.total = 2
    /\ Len(last.resp.data.items) = 1

C5_SoftDeleteSticks ==
    [][model = "soft"
          => /\ (last'.h = "delete" /\ IsSuccess(last'))
                   => (db'[last'.id] # Absent /\ db'[last'.id].is_delete = 1)
             /\ \A i \in Ids :
                   (db[i] # Absent /\ db[i].is_delete = 1)
                   => /\ db'[i] # Absent /\ db'[i].is_delete = 1
                      /\ last'.h = "list_get" => i \notin {last'.rows[n] : n \in 1..Len(last'.rows)}
                      /\ "get_item_by_filters" \in Steps(last') => last'.found # i
                      /\ last'.h = "filters"
                            => /\ last'.found # i
                               /\ i \notin last'.selected
                               /\ last'.total <= Cardinality({j \in Present(db) :
                                                                db[j].is_delete = 0})]_vars

C5_Witness ==
    /\ model = "soft"
    /\ last.h = "list_get" /\ IsSuccess(last)
    /\ last.rows # <<>>
    /\ \E i \in Present(db) : db[i].is_delete = 1

C7_RollbackOnException ==
    [][(last'.h \in Writes /\ last'.caught # "none")
          => /\ db' = db
             /\ ~last'.pending
             /\ IsFailure(last', GenericMessage(last'.h))]_vars

C7_Witness ==
    /\ last.h = "post"
    /\ last.caught = "post_postprocess_func"
    /\ "flush" \in Steps(last)

\* C8: a list request with page = p and per_page = n and neither start nor
\* number, on a resource with the default serializer, succeeds with total =
\* N and the rows n*(p-1)+1 .. min(n*p, N) of the filtered rows, latest
\* create_time first.
C8_PageWindow ==
    (/\ last.h = "list_get" /\ Admitted(last) /\ last.stop = "none"
     /\ "get_query_data_process_func" \notin last.rc.hooks
     /\ {"page", "per_page"} \subseteq DOMAIN last.args
     /\ {"start", "number"} \cap DOMAIN last.args = {})
    => /\ IsSuccess(last)
       /\ last.resp.data.total = Cardinality(LiveFiltered(last))
       /\ last.resp.data.items =
             Window(SortDesc(db, LiveFiltered(last)),
                    last.args.per_page * (last.args.page - 1), last.args.per_page)

C8_Witness ==
    /\ last.h = "list_get" /\ Admitted(last) /\ last.stop = "none"
    /\ last.rc.hooks = {}
    /\ {"page", "per_page"} \subseteq DOMAIN last.args
    /\ {"start", "number"} \cap DOMAIN last.args = {}
    /\ LiveFiltered(last) # {}
    /\ IsFailure(last, MSG_QUERY_FAILED)

\* C9: the query a list request executes is windowed by offset = start,
\* limit = number when both are given, whether or not page and per_page
\* are; by the page window when page and per_page are given and start or
\* number is missing; and not at all otherwise.
C9_WindowPrecedence ==
    (last.h = "list_get" /\ "all" \in Steps(last) /\ last.caught # "all")
    => LET F == SortDesc(db, LiveFiltered(last))
           a == last.args
       IN last.rows =
             IF {"start", "number"} \subseteq DOMAIN a
             THEN Window(F, a.start, a.number)
             ELSE IF {"page", "per_page"} \subseteq DOMAIN a
             THEN Window(F, a.per_page * (a.page - 1), a.per_page)
             ELSE F

C9_Witness ==
    /\ last.h = "list_get" /\ IsSuccess(last)
    /\ DOMAIN last.args = _GET_COMMON_PARAMS
    /\ last.args.start = 0 /\ last.args.page = 2
    /\ last.total = 2
    /\ last.rows = <<2>>

\* C10: an admitted update with a non-empty parsed argument set whose id,
\* looked up by primary key, is of no row or of a soft-deleted row returns
\* the FAILED envelope with 'not found' and HTTP status 200; no hook has
\* been called, nothing assigned, commit not called, the table unchanged.
C10_UpdateMissing ==
    [][(/\ last'.h = "put" /\ Admitted(last')
        /\ "get_item_func" \notin last'.rc.hooks
        /\ last'.stop \notin {"parse", "query_get"}
        /\ DOMAIN last'.args # {}
        /\ (db[last'.id] = Absent \/ IsDeleted(db[last'.id])))
          => /\ last'.resp = http_resp(FAILED_CODE, MSG_NOT_FOUND, EmptyMap, 200)
             /\ Steps(last') \cap (HookNames \cup {"setattr", "commit"}) = {}
             /\ db' = db]_vars

C10_Witness ==
    /\ last.h = "put"
    /\ last.rc.hooks # {}
    /\ db[last.id] = Absent
    /\ IsFailure(last, MSG_NOT_FOUND)

\* C11: every envelope http_resp builds has the four keys code, message,
\* data and request_id, whatever request identifier the request carries (an
\* empty X-Request-Id header included); data is the empty object when no
\* payload is given, and the HTTP status is the status argument.
C11_EnvelopeKeys ==
    (last # NoRequest /\ last.h = "http_resp")
    => /\ DOMAIN last.body = {"code", "message", "data", "request_id"}
       /\ last.body.code = <<last.code>>
       /\ last.body.message = <<last.message>>
       /\ last.body.data = IF last.data = <<>> THEN <<EmptyMap>> ELSE last.data
       /\ last.body.request_id = <<last.request_id>>
       /\ last.status_code = last.status

C11_Witness ==
    /\ last # NoRequest /\ last.h = "http_resp"
    /\ last.header = <<"">>
    /\ last.data = <<>> /\ last.body.data = <<EmptyMap>>
    /\ last.status_code = 500 /\ last.code = SUCCESS_CODE
    /\ "request_id" \notin DOMAIN last.body

\* ------------------------------------------------------------------- C12
\* the extension hooks of a handler that stand for a value of the pipeline
ExtensionHooks(h) ==
    HooksOf(h) \ {"check_item_exist_func", "add_query_filter", "get_item_func"}

\* the steps of request o that were taken after its step `step`
LaterSteps(o, step) ==
    {j \in 1..Len(o.trace) : \E i \in 1..(j - 1) : o.trace[i] = step}

\* the request o got as far as hook `step`, which returned a Response
ReturnedResponse(o, step) ==
    /\ Admitted(o)
    /\ o.stop = step /\ o.kind = "resp"
    /\ step \in Steps(o)

\* C12: when an extension hook of a handler returns a Response, the request's
\* response is that Response, nothing is called after the hook except
\* rollback, and a write handler calls rollback itself before it returns
\* (the wrapper's rollback comes on top of it)
C12_HookResponse ==
    last.h \in Handlers
    => \A step \in ExtensionHooks(last.h) :
          ReturnedResponse(last, step)
          => /\ last.resp = HookResponse(step)
             /\ \A j \in LaterSteps(last, step) : last.trace[j] = "rollback"
             /\ last.h \in Writes => Cardinality(LaterSteps(last, step)) = 2

\* the post-hook of a list request returned a Response and the request went
\* on to the serializer
C12_Witness ==
    /\ last.h = "list_get"
    /\ ReturnedResponse(last, "get_postprocess_func")
    /\ "get_query_data_process_func" \in Steps(last)
    /\ last.resp # HookResponse("get_postprocess_func")

\* ------------------------------------------------------------------- C13
\* in request o the step `stop` was reached and raised
RaisedAt(o) ==
    /\ Admitted(o)
    /\ o.kind \in {"raise", "bad_request"}
    /\ o.stop \in Steps(o)

\* C13: of the exceptions of a request only a BadRequest raised outside the
\* try block (in argument parsing) leaves the handler; another exception
\* raised there gives the 'service error' envelope with status 500; an
\* exception raised inside the try block, a BadRequest included, gives the
\* handler's generic failure envelope. These envelopes carry the fixed
\* message and empty data, nothing of the exception.
C13_ExceptionBoundary ==
    last.h \in Handlers
    => /\ last.resp.kind = "abort"
            <=> (RaisedAt(last) /\ last.stop = "parse" /\ last.kind = "bad_request")
       /\ last.resp.kind = "abort" => last.resp = BadRequestResponse
       /\ (RaisedAt(last) /\ last.stop = "parse" /\ last.kind = "raise")
            => last.resp = http_resp(FAILED_CODE, MSG_SERVICE_ERROR, EmptyMap, 500)
       /\ (RaisedAt(last) /\ last.stop # "parse")
            => /\ last.caught = (IF last.kind = "raise" THEN last.stop ELSE "BadRequest")
               /\ last.resp = http_resp(FAILED_CODE, GenericMessage(last.h), EmptyMap, 200)
       /\ last.caught # "none"
            => last.resp = http_resp(FAILED_CODE, GenericMessage(last.h), EmptyMap, 200)

\* a parsing error that is not a BadRequest, answered by the wrapper
C13_Witness ==
    /\ last.h = "put"
    /\ RaisedAt(last) /\ last.stop = "parse" /\ last.kind = "raise"
    /\ last.resp.status = 500

\* ------------------------------------------------------------------- C14
\* the number of rollbacks called in request o
Rollbacks(o) == Cardinality({j \in 1..Len(o.trace) : o.trace[j] = "rollback"})

\* C14: when a create, update or delete request answers with anything but a
\* success envelope, the session holds no pending change once the wrapper
\* has returned, and the committed table is what it was.
C14_NothingPending ==
    [][(last'.h \in Writes /\ ~IsSuccess(last'))
          => (~last'.pending /\ db' = db)]_vars

\* an update rejected as a duplicate after its pre-hook changed the row: the
\* handler returned with the change pending and without a rollback of its
\* own
C14_Witness ==
    /\ last.h = "put"
    /\ IsFailure(last, MSG_DUPLICATE)
    /\ last.dirty
    /\ Rollbacks(last) = 1
    /\ ~last.pending

\* ------------------------------------------------------------------- C15
\* C15: on a resource with no post_check_exist_fields and no
\* check_item_exist_func the existence check of a create request finds no
\* record, and the request does not fail with 'already exists'.
C15_NoFieldsNoLookup ==
    (/\ last.h = "post" /\ Admitted(last)
     /\ last.rc.post_check_exist_fields = {}
     /\ "check_item_exist_func" \notin last.rc.hooks)
    => /\ last.found = 0
       /\ ~IsFailure(last, MSG_EXISTS)

\* such a create request over a table with a live row, refused
C15_Witness ==
    /\ last.h = "post" /\ Admitted(last)
    /\ last.rc.post_check_exist_fields = {}
    /\ "check_item_exist_func" \notin last.rc.hooks
    /\ last.same0 = {}
    /\ last.found # 0
    /\ IsFailure(last, MSG_EXISTS)

\* ------------------------------------------------------------------- C16
\* the live rows of store other than row id whose values in fields are the
\* values args gives them
OtherMatches(store, id, fields, args) ==
    {i \in Present(store) \ {id} :
        /\ ~IsDeleted(store[i])
        /\ \A f \in fields : store[i][f] = args[f]}

\* an update that found its row, on a resource that leaves the uniqueness
\* check to the pipeline, with a value for every declared field
ReachedCheck(o) ==
    /\ o.h = "put" /\ Admitted(o)
    /\ o.stop = "none" /\ o.item # 0
    /\ "check_item_exist_func" \notin o.rc.hooks
    /\ o.rc.put_check_exist_fields \subseteq DOMAIN o.args

\* C16: an update of an existing row fails with 'duplicate record' exactly
\* when fields are declared in put_check_exist_fields and another live row
\* has the argument values in them; it is not rejected when only the target
\* matches or no field is declared; a rejected update changes no row.
C16_DuplicateIff ==
    [][ReachedCheck(last')
          => /\ IsFailure(last', MSG_DUPLICATE)
                  <=> /\ last'.rc.put_check_exist_fields # {}
                      /\ OtherMatches(db, last'.id, last'.rc.put_check_exist_fields,
                                      last'.args) # {}
             /\ IsFailure(last', MSG_DUPLICATE) => db' = db]_vars

\* an update refused as a duplicate on a resource that declares no field
C16_Witness ==
    /\ ReachedCheck(last)
    /\ last.rc.put_check_exist_fields = {}
    /\ IsFailure(last, MSG_DUPLICATE)
    /\ last.found # last.id

\* ------------------------------------------------------------------- C17
\* the place of a call in the create pipeline (Step 1 .. Step 7 of post)
PostStage(step) ==
    CASE step = "parse" -> 0
      [] step \in {"check_item_exist_func", "get_item_by_filters"} -> 1
      [] step = "post_preprocess_func" -> 2
      [] step = "construct" -> 3
      [] step = "add" -> 4
      [] step = "flush" -> 5
      [] step = "post_postprocess_func" -> 6
      [] step \in {"post_query_data_process_func", "query_data_process"} -> 7
      [] step = "post_process_return_data" -> 8
      [] step = "commit" -> 9
      [] step = "rollback" -> 10

\* the hooks of the create pipeline that resource class rc defines
PostHooks(rc) ==
    rc.hooks \cap {"post_preprocess_func", "post_postprocess_func",
                   "post_query_data_process_func", "post_process_return_data"}

\* C17: the calls of a create request are made in the order existence check,
\* pre-hook, construction, add, flush, post-hook, serializer, final-shape
\* hook, commit, each at most once; the post-hook runs only after add and
\* flush; commit runs only after every hook the resource defines and the
\* serializer have run and none returned a Response; a success envelope is
\* returned only after commit has returned, and then the new row has exactly
\* the argument values whose keys are attributes of the model.
C17_CreateOrder ==
    [][(last'.h = "post" /\ Admitted(last'))
          => LET o == last'
                 n == Len(o.trace)
             IN /\ \A i, j \in 1..n :
                      i < j => \/ PostStage(o.trace[i]) < PostStage(o.trace[j])
                               \/ o.trace[j] = "rollback"
                /\ "post_postprocess_func" \in Steps(o)
                      => {"construct", "add", "flush"} \subseteq Steps(o)
                /\ "commit" \in Steps(o)
                      => /\ {"construct", "add", "flush"} \cup PostHooks(o.rc)
                                \subseteq Steps(o)
                         /\ Steps(o) \cap {"post_query_data_process_func",
                                           "query_data_process"} # {}
                         /\ \A step \in PostHooks(o.rc) : ~ReturnedResponse(o, step)
                /\ IsSuccess(o)
                      => /\ n >= 2 /\ o.trace[n - 1] = "commit" /\ o.caught = "none"
                         /\ o.item = next_id
                         /\ db'[o.item] =
                               Row(model, o.item,
                                   IF "name" \in DOMAIN o.args THEN o.args.name ELSE NULL, 0)
                         /\ \A i \in Ids \ {o.item} : db'[i] = db[i]
                /\ ~IsSuccess(o) => db' = db]_vars

\* a create with every hook, carrying a key that is no attribute
C17_Witness ==
    /\ last.h = "post" /\ IsSuccess(last)
    /\ PostHooks(last.rc) \subseteq Steps(last)
    /\ Cardinality(PostHooks(last.rc)) = 4
    /\ "extra" \in DOMAIN last.args
    /\ "commit" \in Steps(last)
    /\ db[last.item].name = "b"

\* ------------------------------------------------------------------- C18
\* C18: an item-read request answers with a success envelope only for a row
\* that is in the table and whose is_delete is 0, however the row is fetched
\* (get_item_by_join_func, get_item_func or primary-key lookup); for a
\* soft-deleted row no hook answers for, the answer is 'not found'.
C18_ReadNeverDeleted ==
    (last.h = "item_get" /\ Admitted(last))
    => /\ IsSuccess(last)
            => (db[last.id] # Absent /\ ~IsDeleted(db[last.id]))
       /\ (/\ db[last.id] # Absent /\ IsDeleted(db[last.id])
           /\ last.stop = "none")
            => IsFailure(last, MSG_NOT_FOUND)

\* a soft-deleted row read with success through get_item_by_join_func
C18_Witness ==
    /\ last.h = "item_get" /\ IsSuccess(last)
    /\ "get_item_by_join_func" \in Steps(last)
    /\ db[last.id] # Absent /\ IsDeleted(db[last.id])
    /\ last.resp.data = [key |-> last.id, item |-> last.id]

\* ------------------------------------------------------------------- C19
\* the filter map without its is_delete entry
OtherFilters(filters) == [k \in DOMAIN filters \ {"is_delete"} |-> filters[k]]

\* the rows of the table that pass every entry of filters: a scalar by
\* equality, a mapping by _query_filter_other_logic
Passing(filters) ==
    {i \in Present(db) :
        \A f \in DOMAIN filters :
           IF filters[f].dict THEN _query_filter_other_logic(db[i], f, filters[f].v)
           ELSE db[i][f] = filters[f].v}

\* C19: on a model with is_delete the three helpers return or count exactly
\* the rows with is_delete = 0 that pass the caller's other filters, whatever
\* the caller passes for is_delete itself; on a model without is_delete they
\* return or count the rows that pass the caller's filters, no predicate
\* added.
C19_FiltersOnlyLive ==
    last.h = "filters"
    => LET expected ==
               IF model = "soft"
               THEN {i \in Passing(OtherFilters(last.filters)) : db[i].is_delete = 0}
               ELSE Passing(last.filters)
       IN /\ last.selected = expected
          /\ last.total = Cardinality(expected)
          /\ IF expected = {} THEN last.found = 0 ELSE last.found \in expected

\* the caller asks for is_delete = 1 over a table with a deleted and a live
\* row, and gets the live one
C19_Witness ==
    /\ last.h = "filters" /\ model = "soft"
    /\ last.filters = [is_delete |-> Scalar(1)]
    /\ \E i \in Present(db) : db[i].is_delete = 1
    /\ last.selected # {} /\ last.total = 1 /\ last.found \in last.selected
    /\ \A i \in last.selected : db[i].is_delete = 0

\* ------------------------------------------------------------------- C20
\* the directives in the order they are tried
Directives == <<"gt", "lt", "ge", "le", "ne">>

\* the place in Directives of the first directive mapping d has; 0 for none
FirstDirective(d) ==
    LET has == {n \in 1..Len(Directives) : Directives[n] \in DOMAIN d}
    IN IF has = {} THEN 0 ELSE CHOOSE n \in has : \A m \in has : n <= m

\* the comparison a directive stands for
Compare(op, x, y) ==
    CASE op = "gt" -> x > y
      [] op = "lt" -> x < y
      [] op = "ge" -> x >= y
      [] op = "le" -> x <= y
      [] op = "ne" -> x # y

\* the one predicate a filter entry stands for
EntryHolds(rec, field, value) ==
    IF value.dict
    THEN LET n == FirstDirective(value.v)
         IN n = 0 \/ Compare(Directives[n], rec[field], value.v[Directives[n]])
    ELSE rec[field] = value.v

\* C20: the helpers select exactly the rows that satisfy, for every entry of
\* the filter map, one predicate: equality for a value that is no mapping;
\* for a mapping the comparison of its first directive in the order gt, lt,
\* ge, le, ne, and nothing for a mapping with none of them (the is_delete
\* entry being is_delete = 0 on a model that has the attribute).
C20_FirstDirectiveWins ==
    last.h = "filters"
    => LET fs == WithSoftDelete(model, last.filters)
           expected == {i \in Present(db) :
                          \A f \in DOMAIN fs : EntryHolds(db[i], f, fs[f])}
       IN /\ last.selected = expected
          /\ last.total = Cardinality(expected)
          /\ IF expected = {} THEN last.found = 0 ELSE last.found \in expected

\* {gt: 1, le: 1} selects the row with create_time 2, which le would refuse
C20_Witness ==
    /\ last.h = "filters"
    /\ last.filters = [create_time |-> Dict([gt |-> 1, le |-> 1])]
    /\ last.selected = {2}
    /\ last.found = 2

\* ------------------------------------------------------------------- C21
\* C21: called as the resource calls it, query_data_process returns for a
\* list a list of the same length whose i-th element is the serialization
\* of the i-th record (the empty list for the empty list), for one record
\* the mapping of the selected fields the record has, and for None the
\* empty mapping; it does not raise.
C21_ListInListOut ==
    (last.h = "data")
    => LET one(item) == process_query_item_data(item, last.date_format, last.item_features,
                                                last.json_load_features,
                                                last.json_dump_features)
       IN /\ last.result.exc = "none"
          /\ Len(last.result.out) = Len(last.data)
          /\ \A i \in 1..Len(last.data) :
                /\ last.result.out[i] = one(last.data[i]).out
                /\ DOMAIN last.result.out[i] = last.item_features \cap DOMAIN last.data[i]

\* a list of two records, for which the call raises
C21_Witness ==
    /\ last.h = "data" /\ last.isList
    /\ Len(last.data) = 2
    /\ last.result.exc = "TypeError"

\* ------------------------------------------------------------------- C22
\* C22: serializing a record emits a selected field whose value is None as
\* None, with no JSON-load, JSON-dump or date transform applied to it even
\* when the field is in json_load_features or json_dump_features (so such a
\* field never makes the serialization raise), and omits a selected field
\* the record does not have.
C22_NullPassthrough ==
    (last.h = "item" /\ last.item # NoItem)
    => /\ last.result.exc # "none"
            => \E f \in last.item_features \cap last.json_load_features :
                  f \in DOMAIN last.item /\ last.item[f] # NullValue
       /\ last.result.exc = "none"
            => /\ DOMAIN last.result.out = last.item_features \cap DOMAIN last.item
               /\ \A f \in DOMAIN last.result.out :
                     last.item[f] = NullValue => last.result.out[f] = NullValue

\* meta is None and listed for both JSON transforms; ghost is no field
C22_Witness ==
    /\ last.h = "item"
    /\ last.item_features = {"meta", "ghost"}
    /\ "meta" \in DOMAIN last.item /\ last.item.meta = NullValue
    /\ last.json_load_features = {"meta"} /\ last.json_dump_features = {"meta"}
    /\ last.result = [exc |-> "none", out |-> [meta |-> NullValue]]

\* ------------------------------------------------------------------- C23
\* C23: serializing a record emits every selected field whose value is a
\* datetime as the string strftime gives for date_format, never as the
\* datetime itself.
C23_DatesFormatted ==
    (last.h = "item" /\ last.result.exc = "none")
    => \A f \in DOMAIN last.result.out :
          (last.item[f].t = "datetime" /\ f \notin last.json_dump_features)
          => last.result.out[f] = strftime(last.item[f], last.date_format)

\* create_time is emitted as the datetime it is
C23_Witness ==
    /\ last.h = "item" /\ last.result.exc = "none"
    /\ last.item_features = {"create_time"} /\ last.date_format = 0
    /\ "create_time" \in DOMAIN last.result.out
    /\ last.result.out.create_time.t = "datetime"

\* ------------------------------------------------------------------- C24
\* C24: serializing a record emits, for every selected field in
\* json_dump_features whose value is not None, the JSON string of the
\* field's value.
C24_DumpsValue ==
    (last.h = "item" /\ last.result.exc = "none")
    => \A f \in DOMAIN last.result.out :
          (f \in last.json_dump_features /\ last.item[f] # NullValue)
          => last.result.out[f] = dumps_json_str(last.item[f])

\* meta, a dict, is emitted as the JSON string of the word "meta"
C24_Witness ==
    /\ last.h = "item" /\ last.result.exc = "none"
    /\ last.item_features = {"meta"} /\ last.json_dump_features = {"meta"}
    /\ "meta" \in DOMAIN last.item
    /\ last.item.meta = DictValue("k")
    /\ last.result.out.meta = dumps_json_str(StrValue("meta"))

\* ------------------------------------------------------------------- C25
\* C25: get_parser_args returns exactly the declared arguments the request
\* carries (whose parsed value is not None), falsy values included, each
\* with its value.  A create or update request whose parsed map is empty
\* returns 'parameters required' at once: nothing is called after parsing
\* (no lookup, no hook, no staging, no commit) and the table is unchanged;
\* one whose parsed map is not empty is not answered so.
C25_ParsedArguments ==
    [][/\ last'.h = "parse"
            => /\ DOMAIN last'.args = last'.configs \cap DOMAIN last'.payload
               /\ \A k \in DOMAIN last'.args : last'.args[k] = last'.payload[k]
       /\ (/\ last'.h \in {"post", "put"} /\ Admitted(last')
           /\ "parse" \in Steps(last') /\ last'.stop # "parse")
            => IF DOMAIN last'.args = {}
               THEN /\ IsFailure(last', MSG_PARAMS_REQUIRED)
                    /\ \A j \in 1..Len(last'.trace) : last'.trace[j] \in {"parse", "rollback"}
                    /\ db' = db
               ELSE ~IsFailure(last', MSG_PARAMS_REQUIRED)]_vars

\* a request that carries the empty string for name, 0 for page and
\* nothing for extra
C25_Witness ==
    /\ last.h = "parse"
    /\ last.configs = WRITE_PARSER_CONFIG
    /\ last.payload = [name |-> "", page |-> "0"]
    /\ last.args = [name |-> ""]

\* ------------------------------------------------------------------- C26
\* C26: in a list or item-read request an exception raised by a step after
\* argument parsing (a hook, the count, the query, the serializer) is caught
\* and answered with the FAILED envelope 'query failed', HTTP status 200; a
\* success envelope (with total and items in a list request) is returned
\* only when no step raised.
C26_QueryFailed ==
    (last.h \in {"list_get", "item_get"} /\ Admitted(last))
    => /\ (RaisedAt(last) /\ last.stop # "parse")
            => /\ last.caught # "none"
               /\ last.resp = http_resp(FAILED_CODE, MSG_QUERY_FAILED, EmptyMap, 200)
       /\ last.caught # "none"
            => last.resp = http_resp(FAILED_CODE, MSG_QUERY_FAILED, EmptyMap, 200)
       /\ IsSuccess(last)
            => /\ last.caught = "none" /\ ~RaisedAt(last)
               /\ last.resp.status = 200
               /\ last.h = "list_get" => DOMAIN last.resp.data = {"total", "items"}

\* the count of a list request raises
C26_Witness ==
    /\ last.h = "list_get"
    /\ last.caught = "count"
    /\ IsFailure(last, MSG_QUERY_FAILED)

\* ------------------------------------------------------------------- C27
\* the places in the trace of request o where step was called
Places(o, step) == {j \in 1..Len(o.trace) : o.trace[j] = step}

BothDone == last # NoRequest /\ last.h = "concurrent" /\ \A w \in Workers : last.pc[w] = "done"

\* C28: of two create requests served at once on a resource that declares
\* the uniqueness field name, both with the same name, at most one gets a
\* success envelope; when no live row had the name before, at most one live
\* row has it afterwards.
C28_OneWinner ==
    (BothDone /\ last.c[1].payload.name = last.c[2].payload.name)
    => /\ Cardinality({w \in Workers : IsSuccess(last.c[w])}) <= 1
       /\ last.c[1].same0 = {} => Cardinality(SameName(db, last.c[1].payload)) <= 1

\* both requests looked the name up through check_item_exist_func before
\* either committed; both succeeded and two rows have the name
C28_Witness ==
    /\ BothDone
    /\ "check_item_exist_func" \in last.c[1].rc.hooks
    /\ last.c[1].payload.name = last.c[2].payload.name
    /\ \A w \in Workers : IsSuccess(last.c[w]) /\ "check_item_exist_func" \in Steps(last.c[w])
    /\ last.c[1].same0 = {}
    /\ Cardinality(SameName(db, last.c[1].payload)) = 2

\* ------------------------------------------------------------------- C29
\* the calls that write to the session or end a transaction
SessionCalls ==
    {"construct", "add", "flush", "setattr", "set_is_delete", "session_delete",
     "commit", "rollback"}

\* C29: a list or item-read request on a resource without hooks makes no
\* call that adds, modifies or deletes a row, calls neither commit nor
\* rollback, leaves nothing pending and leaves the table and its key
\* counter as they were, whether it succeeds, finds nothing or fails; of the
\* resource's own state only total is written, and only by a list request.
C29_ReadsWriteNothing ==
    [][(last'.h \in {"list_get", "item_get"} /\ last'.rc.hooks = {})
          => /\ db' = db /\ next_id' = next_id
             /\ Steps(last') \cap SessionCalls = {}
             /\ ~last'.pending /\ ~last'.dirty
             /\ last'.h = "item_get" => last'.total = -1]_vars

\* a list request that fails in the serializer after the count was stored
C29_Witness ==
    /\ last.h = "list_get" /\ last.rc.hooks = {}
    /\ Admitted(last)
    /\ IsFailure(last, MSG_QUERY_FAILED)
    /\ last.total >= 1
    /\ "query_data_process" \in Steps(last)

\* ------------------------------------------------------------------- C30
\* C30: the request id of a request is the value of its X-Request-Id header
\* when it sends one and a generated UUID otherwise; that one value is the
\* resource's request_id, the request_id of the envelope the resource
\* builds, and the X-Request-Id header of the response.
C30_OneRequestId ==
    (last # NoRequest /\ last.h = "response")
    => LET id == IF last.header = NoHeader THEN UUID4 ELSE last.header[1]
       IN /\ last.request_id = id
          /\ last.self_request_id = id
          /\ last.x_request_id = id
          /\ "request_id" \in DOMAIN last.body
          /\ last.body.request_id = <<id>>

\* the header is sent empty: the response header carries the empty id and
\* the envelope carries none
C30_Witness ==
    /\ last # NoRequest /\ last.h = "response"
    /\ last.header = <<"">>
    /\ last.self_request_id = "" /\ last.x_request_id = ""
    /\ "request_id" \notin DOMAIN last.body

====
